---- MODULE Spec2Model ----
\* Model of generator.py, the invoice PDF generator for "Nickyboys' Restaurant
\* Goodies": a linear batch script that writes a catalog CSV, renders
\* OUTPUT_COUNT invoices as PDFs, writes a manifest CSV and zips every PDF
\* found in the output directory.
\*
\* Python floats are IEEE-754 binary64 values.  They are modelled exactly, as
\* a mantissa (an arbitrary-precision natural, held as a little-endian
\* sequence of 15-bit limbs) and a binary exponent; every arithmetic
\* operation rounds to 53 bits, ties to even.  sum() is modelled as the
\* left-to-right binary64 addition of CPython up to 3.11.
\* Text is modelled as a sequence of string fragments (single characters for
\* formatted numbers and dates, whole words for the fixed vocabulary).
EXTENDS Integers, Sequences, FiniteSets, TLC

\* ------------------------------------------------------------------
\* Arbitrary-precision naturals
\* ------------------------------------------------------------------
LimbBits == 15

MantBits == 53

Pow2(n) == 2 ^ n

LimbBase == Pow2(LimbBits)

MaxOf(S) == CHOOSE j \in S : \A m \in S : m <= j

\* a without its leading zero limbs
BNorm(a) ==
    IF a = << >> THEN << >>
    ELSE LET used == {j \in 1..Len(a) : a[j] # 0}
         IN  IF used = {} THEN << >> ELSE SubSeq(a, 1, MaxOf(used))

\* limb j of a, zero beyond its length
BLimb(a, j) == IF j >= 1 /\ j <= Len(a) THEN a[j] ELSE 0

\* a natural below LimbBase^3
BFromInt(n) ==
    BNorm(<<n % LimbBase, (n \div LimbBase) % LimbBase, n \div (LimbBase * LimbBase)>>)

\* a bignum below LimbBase^3 as a natural
BToInt(a) == BLimb(a, 1) + LimbBase * (BLimb(a, 2) + LimbBase * BLimb(a, 3))

\* a + b; the carry into limb j is found by look-ahead: some lower limb
\* generates a carry and every limb between it and j passes it on
BAdd(a, b) ==
    IF a = << >> THEN b
    ELSE IF b = << >> THEN a
    ELSE LET n == IF Len(a) > Len(b) THEN Len(a) ELSE Len(b)
             s == [j \in 1..(n + 1) |-> BLimb(a, j) + BLimb(b, j)]
             carry == [j \in 1..(n + 1) |->
                         IF \E g \in 1..(j - 1) :
                                /\ s[g] >= LimbBase
                                /\ \A m \in (g + 1)..(j - 1) : s[m] >= LimbBase - 1
                         THEN 1 ELSE 0]
         IN  BNorm([j \in 1..(n + 1) |-> (s[j] + carry[j]) % LimbBase])

\* the bignum whose digits d[j] < LimbBase^2 are not yet reduced to limbs
BCarry(d) ==
    BAdd(BNorm([j \in 1..Len(d) |-> d[j] % LimbBase]),
         BNorm(<<0>> \o [j \in 1..Len(d) |-> d[j] \div LimbBase]))

\* a * k for 0 <= k < LimbBase
BMulSmall(a, k) ==
    IF a = << >> THEN << >> ELSE BCarry([j \in 1..Len(a) |-> a[j] * k])

BZeros(n) == [j \in 1..n |-> 0]

\* the sum of the partial products of a by the limbs lo..hi of b, each
\* shifted to the place of its limb
RECURSIVE BMulRows(_, _, _, _)
BMulRows(a, b, lo, hi) ==
    IF lo = hi THEN BNorm(BZeros(lo - 1) \o BMulSmall(a, b[lo]))
    ELSE LET mid == (lo + hi) \div 2
         IN  BAdd(BMulRows(a, b, lo, mid), BMulRows(a, b, mid + 1, hi))

BMul(a, b) == IF b = << >> \/ a = << >> THEN << >> ELSE BMulRows(a, b, 1, Len(b))

\* the remainder by k of the limbs j.. of a, 0 < k < LimbBase
RECURSIVE BRem(_, _, _)
BRem(a, k, j) ==
    IF j > Len(a) THEN 0 ELSE (BRem(a, k, j + 1) * LimbBase + a[j]) % k

\* quotient and remainder of a by k, 0 < k < LimbBase
BDivRem(a, k) ==
    [q |-> BNorm([j \in 1..Len(a) |-> (BRem(a, k, j + 1) * LimbBase + a[j]) \div k]),
     r |-> BRem(a, k, 1)]

\* the number of bits of a limb
IntBitLen(n) == CHOOSE b \in 0..LimbBits : Pow2(b) > n /\ (b = 0 \/ Pow2(b - 1) <= n)

BBitLen(a) == IF a = << >> THEN 0 ELSE LimbBits * (Len(a) - 1) + IntBitLen(a[Len(a)])

BBit(a, k) == (BLimb(a, (k \div LimbBits) + 1) \div Pow2(k % LimbBits)) % 2

BShl(a, n) ==
    IF a = << >> THEN << >>
    ELSE BZeros(n \div LimbBits) \o BMulSmall(a, Pow2(n % LimbBits))

\* floor(a / 2^n): each limb takes its high bits from the limb at its place
\* and its low bits from the next one
BShr(a, n) ==
    LET w == n \div LimbBits
        s == n % LimbBits
    IN  BNorm([j \in 1..(Len(a) - w) |->
                  (a[w + j] \div Pow2(s))
                  + (BLimb(a, w + j + 1) % Pow2(s)) * Pow2(LimbBits - s)])

\* a / 2^n rounded to the nearest integer, ties to even; sticky says that the
\* exact value lies strictly above a / 2^n
BShrRound(a, n, sticky) ==
    IF n = 0 THEN a
    ELSE LET q    == BShr(a, n)
             half == BBit(a, n - 1) = 1
             low  == sticky \/ \E k \in 0..(n - 2) : BBit(a, k) = 1
             odd  == BBit(q, 0) = 1
         IN  IF half /\ (low \/ odd) THEN BAdd(q, <<1>>) ELSE q

\* ------------------------------------------------------------------
\* binary64 values: [m |-> mantissa, e |-> exponent], value m * 2^e
\* ------------------------------------------------------------------
\* the binary64 nearest to m * 2^e (strictly above it when sticky)
FRound(m, e, sticky) ==
    LET len == BBitLen(m)
    IN  IF len <= MantBits THEN [m |-> m, e |-> e]
        ELSE [m |-> BShrRound(m, len - MantBits, sticky), e |-> e + (len - MantBits)]

ParseScale == 64

\* the float literal num/den, e.g. 34.99 = 3499/100
FLiteral(num, den) ==
    LET d == BDivRem(BShl(BFromInt(num), ParseScale), den)
    IN  FRound(d.q, 0 - ParseScale, d.r # 0)

FZero == [m |-> << >>, e |-> 0]

FAdd(x, y) ==
    IF x.e < y.e
    THEN FRound(BAdd(x.m, BShl(y.m, y.e - x.e)), x.e, FALSE)
    ELSE FRound(BAdd(BShl(x.m, x.e - y.e), y.m), y.e, FALSE)

FMul(x, y) == FRound(BMul(x.m, y.m), x.e + y.e, FALSE)

\* int * float, for 0 <= k < LimbBase
FMulInt(k, x) == FRound(BMulSmall(x.m, k), x.e, FALSE)

\* round(x * 100) to the nearest integer, ties to even: the number of cents
\* that f"{x:.2f}" prints
FCents(x) ==
    IF x.e >= 0
    THEN BToInt(BShl(BMulSmall(x.m, 100), x.e))
    ELSE BToInt(BShrRound(BMulSmall(x.m, 100), 0 - x.e, FALSE))

\* ------------------------------------------------------------------
\* Text and dates
\* ------------------------------------------------------------------
DigitChars == <<"0", "1", "2", "3", "4", "5", "6", "7", "8", "9">>

RECURSIVE Digits(_)
Digits(n) ==
    IF n < 10 THEN <<DigitChars[n + 1]>>
    ELSE Digits(n \div 10) \o <<DigitChars[(n % 10) + 1]>>

RECURSIVE ZeroPad(_, _)
ZeroPad(t, w) == IF Len(t) >= w THEN t ELSE ZeroPad(<<"0">> \o t, w)

\* f"{n:0wd}": at least w digits, never truncated
Pad(n, w) == ZeroPad(Digits(n), w)

\* f"{x:.2f}" of a float
Fixed2(x) ==
    LET c == FCents(x) IN Digits(c \div 100) \o <<".">> \o Pad(c % 100, 2)

\* year, month, day of a proleptic Gregorian ordinal (date.fromordinal)
CivilFromOrdinal(n) ==
    LET z   == n + 305
        era == z \div 146097
        doe == z % 146097
        yoe == (doe - (doe \div 1460) + (doe \div 36524) - (doe \div 146096)) \div 365
        doy == doe - (365 * yoe + (yoe \div 4) - (yoe \div 100))
        mp  == (5 * doy + 2) \div 153
        d   == doy - ((153 * mp + 2) \div 5) + 1
        m   == IF mp < 10 THEN mp + 3 ELSE mp - 9
        y   == yoe + era * 400 + (IF m <= 2 THEN 1 ELSE 0)
    IN  [y |-> y, m |-> m, d |-> d]

\* strftime('%Y%m%d')
StrfCompact(day) ==
    LET c == CivilFromOrdinal(day) IN Pad(c.y, 4) \o Pad(c.m, 2) \o Pad(c.d, 2)

\* strftime("%Y-%m-%d")
StrfIso(day) ==
    LET c == CivilFromOrdinal(day)
    IN  Pad(c.y, 4) \o <<"-">> \o Pad(c.m, 2) \o <<"-">> \o Pad(c.d, 2)

\* ------------------------------------------------------------------
\* Static tables
\* ------------------------------------------------------------------
\* item -> (unit, price); price is the literal in cents, e.g. 34.99 -> 3499
PRODUCT_CATALOG == <<
    [name |-> "Stainless Steel Chef Knife 8in", unit |-> "each", price |-> 3499],
    [name |-> "Paring Knife 3.5in", unit |-> "each", price |-> 1250],
    [name |-> "Silver Fork", unit |-> "each", price |-> 500],
    [name |-> "Dinner Spoon", unit |-> "each", price |-> 450],
    [name |-> "Soup Ladle", unit |-> "each", price |-> 1125],
    [name |-> "Wooden Spatula", unit |-> "each", price |-> 399],
    [name |-> "Silicone Spatula", unit |-> "each", price |-> 549],
    [name |-> "Nonstick Fry Pan 10in", unit |-> "each", price |-> 3995],
    [name |-> "Cast Iron Skillet 12in", unit |-> "each", price |-> 5400],
    [name |-> "Stainless Sauce Pan 2qt", unit |-> "each", price |-> 2999],
    [name |-> "Stainless Stock Pot 12qt", unit |-> "each", price |-> 7900],
    [name |-> "Cutting Board - Maple", unit |-> "each", price |-> 2275],
    [name |-> "Cutting Board - Plastic", unit |-> "each", price |-> 1299],
    [name |-> "Mixing Bowl 3qt", unit |-> "each", price |-> 825],
    [name |-> "Mixing Bowl 5qt", unit |-> "each", price |-> 1150],
    [name |-> "Sheet Pan Half", unit |-> "each", price |-> 925],
    [name |-> "Sheet Pan Full", unit |-> "each", price |-> 1475],
    [name |-> "Baking Parchment Roll", unit |-> "roll", price |-> 780],
    [name |-> "Squeeze Bottle 16oz", unit |-> "each", price |-> 199],
    [name |-> "Food Storage Container 2qt", unit |-> "each", price |-> 625],
    [name |-> "Food Storage Container 4qt", unit |-> "each", price |-> 810],
    [name |-> "Cambro Lid (fits 2-4qt)", unit |-> "each", price |-> 210],
    [name |-> "Disposable Gloves (Box 100)", unit |-> "box", price |-> 799],
    [name |-> "Chef Apron", unit |-> "each", price |-> 1200],
    [name |-> "Digital Thermometer", unit |-> "each", price |-> 1895],
    [name |-> "Kitchen Towels (Pack of 6)", unit |-> "pack", price |-> 1099],
    [name |-> "Aluminum Foil Heavy Duty 1000ft", unit |-> "roll", price |-> 2950],
    [name |-> "Plastic Wrap 2000ft", unit |-> "roll", price |-> 2425],
    [name |-> "Bus Tub", unit |-> "each", price |-> 999],
    [name |-> "Dish Rack", unit |-> "each", price |-> 1650],
    [name |-> "Serrated Bread Knife 10in", unit |-> "each", price |-> 2475],
    [name |-> "Tongs 12in", unit |-> "each", price |-> 460],
    [name |-> "Whisk 10in", unit |-> "each", price |-> 380],
    [name |-> "Mandoline Slicer", unit |-> "each", price |-> 4200],
    [name |-> "Colander Stainless 5qt", unit |-> "each", price |-> 1420],
    [name |-> "Immersion Blender", unit |-> "each", price |-> 8900],
    [name |-> "Heat-Resistant Spatula", unit |-> "each", price |-> 640],
    [name |-> "Silicone Baking Mat Half", unit |-> "each", price |-> 1120],
    [name |-> "Grill Brush", unit |-> "each", price |-> 730],
    [name |-> "Commercial Can Opener", unit |-> "each", price |-> 6499]
>>

CITIES == <<
    <<"Philadelphia", "PA", "191">>, <<"Pittsburgh", "PA", "152">>,
    <<"Harrisburg", "PA", "171">>, <<"Newark", "DE", "197">>,
    <<"Wilmington", "DE", "198">>, <<"Baltimore", "MD", "212">>,
    <<"Towson", "MD", "212">>, <<"Cherry Hill", "NJ", "080">>,
    <<"Trenton", "NJ", "086">>, <<"Camden", "NJ", "081">>,
    <<"New York", "NY", "100">>, <<"Yonkers", "NY", "107">>,
    <<"Stamford", "CT", "069">>, <<"Allentown", "PA", "181">>,
    <<"Reading", "PA", "196">>, <<"Lancaster", "PA", "176">>,
    <<"Scranton", "PA", "185">>, <<"Bethlehem", "PA", "180">>
>>

STREET_NAMES == <<
    "Market St", "Broad St", "Main St", "Chestnut St", "Walnut St",
    "Spruce St", "Pine St", "Maple Ave", "Elm Ave", "Second St",
    "Third St", "Fourth St", "Fifth Ave", "Park Ave", "Ridge Ave",
    "Front St", "River Rd", "High St", "Bridge St", "Union Ave"
>>

RESTAURANT_PREFIX == <<
    "Golden", "Red Oak", "Blue Harbor", "Sunrise", "Cedar Grove", "Harvest",
    "Liberty", "Hudson", "Riverstone", "Silver Spoon", "Firefly", "Willow",
    "Urban", "Green Leaf", "Copper Pot", "Iron Gate", "Saffron", "Juniper",
    "Nick's", "Bella", "Little"
>>

RESTAURANT_SUFFIX == <<
    "Bistro", "Tavern", "Kitchen", "Trattoria", "Grill", "Diner",
    "Cantina", "Ramen House", "Pizzeria", "Steakhouse", "Cafe",
    "Tap House", "Bar & Grill", "Smokehouse", "Gastropub"
>>

NOUNS == <<"Fork", "Spatula", "Spice", "Anchor", "Lantern", "Hearth", "Crown", "Sailor", "Spoon">>

ADJECTIVES == <<"Rusty", "Golden", "Blue", "Green", "Silver", "Old", "Velvet">>

\* tax rates as literals in units of 1/10000, e.g. 0.0725 -> 725
TAX_RATES == <<600, 625, 700, 725, 800, 825, 850>>

RateScale == 10000

DUE_DAYS == <<7, 14, 21, 30>>

MinItems == 5

MaxItems == 12

MinQty == 1

MaxQty == 40

MaxIssueOffset == 25

IssueLag == 30

\* ------------------------------------------------------------------
\* Generators.  d is the record of the values the seeded random stream
\* returns during one loop iteration, in call order.
\* ------------------------------------------------------------------
\* random.choice(seq) given the index drawn
Choice(seq, r) == seq[(r % Len(seq)) + 1]

make_restaurant_name(d) ==
    IF d.coin
    THEN <<Choice(RESTAURANT_PREFIX, d.w1), " ", Choice(RESTAURANT_SUFFIX, d.w2)>>
    ELSE <<"The", " ", Choice(ADJECTIVES, d.w2), " ", Choice(NOUNS, d.w1)>>

make_address(d) ==
    LET city == Choice(CITIES, d.city)
    IN  << Digits(d.number) \o <<" ", Choice(STREET_NAMES, d.street)>>,
           <<city[1], ", ", city[2], " ", city[3]>> \o Pad(d.zip, 2) >>

\* variant: the sequence number held to three digits
random_invoice_number_3digits(i, today) ==
    <<"INV-">> \o StrfCompact(today) \o <<"-">> \o Pad(i % 1000, 3)

random_invoice_number(i, today) ==
    <<"INV-">> \o StrfCompact(today) \o <<"-">> \o Pad(i, 3)

\* variant: selection with replacement, as random.choices would do
RECURSIVE SampleWithReplacement(_, _, _, _)
SampleWithReplacement(pool, n, picks, k) ==
    IF k = n THEN << >>
    ELSE <<pool[(picks[k + 1] % Len(pool)) + 1]>>
         \o SampleWithReplacement(pool, n, picks, k + 1)

\* random.sample(population, n): CPython's pool selection; picks[k] is the
\* k-th value drawn, reduced to the shrinking pool
RECURSIVE Sample(_, _, _, _)
Sample(pool, n, picks, k) ==
    IF k = n THEN << >>
    ELSE LET len == Len(pool) - k
             j   == (picks[k + 1] % len) + 1
         IN  <<pool[j]>> \o Sample([pool EXCEPT ![j] = pool[len]], n, picks, k + 1)

\* random.sample raises ValueError when the sample is larger than the population
SampleRaises(catalog, d) == d.n > Len(catalog)

Price(cents) == FLiteral(cents, 100)

choose_line_items(catalog, d) ==
    LET items == Sample(catalog, d.n, d.picks, 0)
    IN  [k \in 1..d.n |->
            <<items[k].name, items[k].unit, d.qty[k], items[k].price,
              FMulInt(d.qty[k], Price(items[k].price))>>]

\* sum(a for *_, a in lines)
RECURSIVE SumAmounts(_, _)
SumAmounts(lines, k) ==
    IF k = 0 THEN FZero ELSE FAdd(SumAmounts(lines, k - 1), lines[k][5])

\* the row appended to manifest_rows for the iteration
ManifestRow(invoice_no, to_name, addr, issued, due, lines, rate) ==
    LET subtotal == SumAmounts(lines, Len(lines))
        tax      == FMul(subtotal, FLiteral(rate, RateScale))
        grand    == FAdd(subtotal, tax)
    IN  <<invoice_no, StrfIso(issued), StrfIso(due), to_name, addr[1], addr[2],
          Fixed2(subtotal), Fixed2(tax), Fixed2(grand)>>

PdfName(invoice_no) == invoice_no \o <<".pdf">>

\* PDF_DIR.glob("*.pdf")
GlobPdf(dir) == {p \in dir : p[Len(p)] = ".pdf"}

CATALOG_HEADER == <<"Product", "Unit", "PriceUSD">>

MANIFEST_HEADER ==
    <<"InvoiceNo", "IssuedDate", "DueDate", "ToName", "ToAddr1", "ToAddr2",
      "Subtotal", "Tax", "GrandTotal">>

CatalogExport(catalog) ==
    <<CATALOG_HEADER>> \o
    [k \in 1..Len(catalog) |->
        <<catalog[k].name, catalog[k].unit, Fixed2(Price(catalog[k].price))>>]

ManifestExport(rows) == <<MANIFEST_HEADER>> \o rows

\* ------------------------------------------------------------------
\* Bounds of the model
\* ------------------------------------------------------------------
MaxN == 2

LongN == 1001

MaxRuns == 2

MaxTicks == 1

TickHorizon == 3

MaxPick == 2

PickDepth == 2

QtyDepth == 1

SmallCatalogLen == 6

\* 2026-12-31 as a proleptic Gregorian ordinal
StartDay == 739981

\* the day of the earlier run that left a document in the output directory
StaleDay == 739925

\* ------------------------------------------------------------------
\* State
\* ------------------------------------------------------------------
VARIABLES
    pc,              \* position of the script
    reportlab,       \* whether the reportlab imports succeed
    product_catalog, \* PRODUCT_CATALOG as edited for this installation
    output_count,    \* OUTPUT_COUNT
    now,             \* the date datetime.now() returns
    ticks,           \* midnights passed so far
    runs,            \* executions of the script started so far
    stream,          \* values of the random stream seeded with 42, per iteration
    base_issue,
    i,
    lines,
    manifest_rows,
    pdf_dir,         \* names of the files in PDF_DIR
    catalog_csv,     \* content of product_catalog.csv (<< >> when absent or empty)
    manifest_csv,    \* content of invoice_manifest.csv
    zip_file,        \* member names of invoices.zip
    log,             \* output events of the current execution, in order
    reads,           \* dates datetime.now() returned in the current execution
    prev,            \* exports and clock reads of the last completed execution
    error            \* the exception that ended the current execution

vars == <<pc, reportlab, product_catalog, output_count, now, ticks, runs, stream,
          base_issue, i, lines, manifest_rows, pdf_dir, catalog_csv,
          manifest_csv, zip_file, log, reads, prev, error>>

env == <<reportlab, product_catalog, output_count>>

SCRIPT_NAME == <<"generator", ".py">>

CATALOG_CSV == <<"product_catalog", ".csv">>

MANIFEST_CSV == <<"invoice_manifest", ".csv">>

ZIP_PATH == <<"invoices", ".zip">>

\* ------------------------------------------------------------------
\* Values the random stream may return in one iteration
\* ------------------------------------------------------------------
PickSeqs(depth, maxv) ==
    {[k \in 1..MaxItems |-> IF k <= depth THEN f[k] ELSE 0] :
        f \in [1..depth -> 0..maxv]}

QtySeqs(depth, qs) ==
    {[k \in 1..MaxItems |-> IF k <= depth THEN f[k] ELSE MinQty] :
        f \in [1..depth -> qs]}

RunDraws ==
    [coin : BOOLEAN, w1 : {0}, w2 : {0}, number : {100}, street : {0},
     city : {0}, zip : {10}, off : {0}, due : {0}, n : {MinItems, MaxItems},
     picks : PickSeqs(0, 0), qty : QtySeqs(0, {MinQty}), rate : {0}]

RerunDraws ==
    [coin : BOOLEAN, w1 : {0}, w2 : {0}, number : {100}, street : {0},
     city : {0}, zip : {10}, off : {0}, due : {0}, n : {MinItems},
     picks : PickSeqs(0, 0), qty : QtySeqs(0, {MinQty}), rate : {0}]

ItemDraws ==
    [coin : {TRUE}, w1 : {0}, w2 : {0}, number : {9999}, street : {0},
     city : {0}, zip : {99}, off : {MaxIssueOffset}, due : {3},
     n : MinItems..MaxItems, picks : PickSeqs(PickDepth, MaxPick),
     qty : QtySeqs(QtyDepth, {MinQty, MaxQty}), rate : 0..(Len(TAX_RATES) - 1)]

LongDraws ==
    [coin : {FALSE}, w1 : {0}, w2 : {0}, number : {100}, street : {0},
     city : {0}, zip : {10}, off : {0}, due : {0}, n : {MinItems},
     picks : PickSeqs(0, 0), qty : QtySeqs(0, {MinQty}), rate : {0}]

\* variant: the generator is not seeded, every execution draws afresh
StreamAtUnseeded(k, D) == D

\* the stream is fixed by random.seed(42): an iteration that an earlier
\* execution already ran draws the same values again
StreamAt(k, D) == IF k <= Len(stream) THEN {stream[k]} ELSE D

StreamWith(k, d) == IF k <= Len(stream) THEN stream ELSE Append(stream, d)

\* what a failed write leaves of a file that would have held rows: the file
\* as it was, or the new content cut short
PartialWrites(old, rows) == {old, SubSeq(rows, 1, Len(rows) - 1)}

NoPrev == [done |-> FALSE, catalog_csv |-> << >>, manifest_csv |-> << >>, reads |-> << >>]

\* ------------------------------------------------------------------
\* Initial states
\* ------------------------------------------------------------------
InitialDirs ==
    { {SCRIPT_NAME},
      {SCRIPT_NAME, PdfName(random_invoice_number(1, StaleDay))} }

Catalogs == {PRODUCT_CATALOG, SubSeq(PRODUCT_CATALOG, 1, SmallCatalogLen)}

InitProcess ==
    /\ pc = "import"
    /\ ticks = 0
    /\ runs = 1
    /\ stream = << >>
    /\ base_issue = 0
    /\ i = 0
    /\ lines = << >>
    /\ manifest_rows = << >>
    /\ catalog_csv = << >>
    /\ manifest_csv = << >>
    /\ zip_file = {}
    /\ log = << >>
    /\ reads = << >>
    /\ prev = NoPrev
    /\ error = "none"
    /\ now = StartDay

Init ==
    /\ InitProcess
    /\ reportlab \in BOOLEAN
    /\ product_catalog \in Catalogs
    /\ output_count \in 0..MaxN
    /\ pdf_dir \in InitialDirs

InitRerun ==
    /\ InitProcess
    /\ reportlab = TRUE
    /\ product_catalog = PRODUCT_CATALOG
    /\ output_count \in 0..MaxN
    /\ pdf_dir \in InitialDirs

InitItems ==
    /\ InitProcess
    /\ reportlab = TRUE
    /\ product_catalog = PRODUCT_CATALOG
    /\ output_count = 1
    /\ pdf_dir = {SCRIPT_NAME}

InitLong ==
    /\ InitProcess
    /\ reportlab = TRUE
    /\ product_catalog = PRODUCT_CATALOG
    /\ output_count = LongN
    /\ pdf_dir = {SCRIPT_NAME}

\* ------------------------------------------------------------------
\* Steps of the script
\* ------------------------------------------------------------------
\* variant: the import error is swallowed and the script carries on
ImportReportlabSwallowed ==
    /\ pc = "import"
    /\ pc' = "catalog"
    /\ error' = error
    /\ UNCHANGED <<env, now, ticks, runs, stream, base_issue, i, lines,
                   manifest_rows, pdf_dir, catalog_csv, manifest_csv, zip_file,
                   log, reads, prev>>

\* lines 19-31: the guarded reportlab imports
ImportReportlab ==
    /\ pc = "import"
    /\ IF reportlab
       THEN pc' = "catalog" /\ error' = error
       ELSE pc' = "crashed" /\ error' = "RuntimeError"
    /\ UNCHANGED <<env, now, ticks, runs, stream, base_issue, i, lines,
                   manifest_rows, pdf_dir, catalog_csv, manifest_csv, zip_file,
                   log, reads, prev>>

\* lines 278-289: seed, catalog export, manifest_rows = [], base_issue
WriteCatalog ==
    /\ pc = "catalog"
    /\ catalog_csv' = CatalogExport(product_catalog)
    /\ pdf_dir' = pdf_dir \cup {CATALOG_CSV}
    /\ log' = Append(log, <<"catalog">>)
    /\ manifest_rows' = << >>
    /\ base_issue' = now - IssueLag
    /\ reads' = Append(reads, now)
    /\ pc' = "loop"
    /\ UNCHANGED <<env, now, ticks, runs, stream, i, lines, manifest_csv,
                   zip_file, prev, error>>

WriteCatalogFails ==
    /\ pc = "catalog"
    /\ \E c \in PartialWrites(catalog_csv, CatalogExport(product_catalog)) :
          /\ catalog_csv' = c
          /\ pdf_dir' = IF c = catalog_csv THEN pdf_dir ELSE pdf_dir \cup {CATALOG_CSV}
    /\ pc' = "crashed"
    /\ error' = "OSError"
    /\ UNCHANGED <<env, now, ticks, runs, stream, base_issue, i, lines,
                   manifest_rows, manifest_csv, zip_file, log, reads, prev>>

\* the values one iteration computes from its draws (lines 291-304)
Iteration(k, today, base, catalog, d) ==
    LET invoice_no == random_invoice_number(k, today)
        issued     == base + (d.off % (MaxIssueOffset + 1))
        due        == issued + Choice(DUE_DAYS, d.due)
        items      == choose_line_items(catalog, d)
    IN  [invoice_no |-> invoice_no,
         lines      |-> items,
         pdf_path   |-> PdfName(invoice_no),
         row        |-> ManifestRow(invoice_no, make_restaurant_name(d),
                                    make_address(d), issued, due, items,
                                    Choice(TAX_RATES, d.rate))]

\* variant: the manifest row is appended before the document is rendered
IterationEventsRowFirst(invoice_no) == << <<"row", invoice_no>>, <<"pdf", invoice_no>> >>

\* the output events of one successful iteration: draw_invoice (line 305),
\* then manifest_rows.append (line 311)
IterationEvents(invoice_no) == << <<"pdf", invoice_no>>, <<"row", invoice_no>> >>

\* lines 290-315: one pass of the loop body
IterateOk(D) ==
    /\ pc = "loop"
    /\ i < output_count
    /\ \E d \in StreamAt(i + 1, D) :
          /\ ~SampleRaises(product_catalog, d)
          /\ LET it == Iteration(i + 1, now, base_issue, product_catalog, d)
             IN  /\ lines' = it.lines
                 /\ pdf_dir' = pdf_dir \cup {it.pdf_path}
                 /\ manifest_rows' = Append(manifest_rows, it.row)
                 /\ log' = log \o IterationEvents(it.invoice_no)
          /\ stream' = StreamWith(i + 1, d)
    /\ i' = i + 1
    /\ reads' = Append(reads, now)
    /\ UNCHANGED <<pc, env, now, ticks, runs, base_issue, catalog_csv,
                   manifest_csv, zip_file, prev, error>>

\* line 159: random.sample raises ValueError
IterateValueError(D) ==
    /\ pc = "loop"
    /\ i < output_count
    /\ \E d \in StreamAt(i + 1, D) :
          /\ SampleRaises(product_catalog, d)
          /\ stream' = StreamWith(i + 1, d)
    /\ i' = i + 1
    /\ reads' = Append(reads, now)
    /\ pc' = "crashed"
    /\ error' = "ValueError"
    /\ UNCHANGED <<env, now, ticks, runs, base_issue, lines, manifest_rows,
                   pdf_dir, catalog_csv, manifest_csv, zip_file, log, prev>>

\* variant: a failed document is skipped and the loop goes on
IterateWriteSkips(D) ==
    /\ pc = "loop"
    /\ i < output_count
    /\ \E d \in StreamAt(i + 1, D) :
          /\ ~SampleRaises(product_catalog, d)
          /\ LET it == Iteration(i + 1, now, base_issue, product_catalog, d)
             IN  /\ lines' = it.lines
                 /\ pdf_dir' \in {pdf_dir, pdf_dir \cup {it.pdf_path}}
          /\ stream' = StreamWith(i + 1, d)
    /\ i' = i + 1
    /\ reads' = Append(reads, now)
    /\ error' = "OSError"
    /\ UNCHANGED <<pc, env, now, ticks, runs, base_issue, manifest_rows,
                   catalog_csv, manifest_csv, zip_file, log, prev>>

\* line 305: draw_invoice cannot write the PDF; a partial file may be left
IterateWriteFails(D) ==
    /\ pc = "loop"
    /\ i < output_count
    /\ \E d \in StreamAt(i + 1, D) :
          /\ ~SampleRaises(product_catalog, d)
          /\ LET it == Iteration(i + 1, now, base_issue, product_catalog, d)
             IN  /\ lines' = it.lines
                 /\ pdf_dir' \in {pdf_dir, pdf_dir \cup {it.pdf_path}}
          /\ stream' = StreamWith(i + 1, d)
    /\ i' = i + 1
    /\ reads' = Append(reads, now)
    /\ pc' = "crashed"
    /\ error' = "OSError"
    /\ UNCHANGED <<env, now, ticks, runs, base_issue, manifest_rows,
                   catalog_csv, manifest_csv, zip_file, log, prev>>

\* lines 317-321, reached when the loop is exhausted
WriteManifest ==
    /\ pc = "loop"
    /\ i >= output_count
    /\ manifest_csv' = ManifestExport(manifest_rows)
    /\ pdf_dir' = pdf_dir \cup {MANIFEST_CSV}
    /\ log' = Append(log, <<"manifest">>)
    /\ pc' = "zip"
    /\ UNCHANGED <<env, now, ticks, runs, stream, base_issue, i, lines,
                   manifest_rows, catalog_csv, zip_file, reads, prev, error>>

WriteManifestFails ==
    /\ pc = "loop"
    /\ i >= output_count
    /\ \E c \in PartialWrites(manifest_csv, ManifestExport(manifest_rows)) :
          /\ manifest_csv' = c
          /\ pdf_dir' = IF c = manifest_csv THEN pdf_dir ELSE pdf_dir \cup {MANIFEST_CSV}
    /\ pc' = "crashed"
    /\ error' = "OSError"
    /\ UNCHANGED <<env, now, ticks, runs, stream, base_issue, i, lines,
                   manifest_rows, catalog_csv, zip_file, log, reads, prev>>

\* lines 323-326: every *.pdf found in PDF_DIR goes into the archive
ZipPDFs ==
    /\ pc = "zip"
    /\ zip_file' = GlobPdf(pdf_dir)
    /\ pdf_dir' = pdf_dir \cup {ZIP_PATH}
    /\ log' = Append(log, <<"zip">>)
    /\ pc' = "done"
    /\ UNCHANGED <<env, now, ticks, runs, stream, base_issue, i, lines,
                   manifest_rows, catalog_csv, manifest_csv, reads, prev, error>>

ZipFails ==
    /\ pc = "zip"
    /\ zip_file' \in {zip_file, {}}
    /\ pdf_dir' = IF zip_file' = zip_file THEN pdf_dir ELSE pdf_dir \cup {ZIP_PATH}
    /\ pc' = "crashed"
    /\ error' = "OSError"
    /\ UNCHANGED <<env, now, ticks, runs, stream, base_issue, i, lines,
                   manifest_rows, catalog_csv, manifest_csv, log, reads, prev>>

\* ------------------------------------------------------------------
\* Environment
\* ------------------------------------------------------------------
\* midnight passes before one of the clock reads of the script (line 289 and,
\* in every iteration, line 154)
ClockTick ==
    /\ pc = "catalog" \/ (pc = "loop" /\ i < output_count)
    /\ ticks < MaxTicks
    /\ i < TickHorizon
    /\ now' = now + 1
    /\ ticks' = ticks + 1
    /\ UNCHANGED <<pc, env, runs, stream, base_issue, i, lines, manifest_rows,
                   pdf_dir, catalog_csv, manifest_csv, zip_file, log, reads,
                   prev, error>>

\* the script is started again in the same directory
Rerun ==
    /\ pc \in {"done", "crashed"}
    /\ runs < MaxRuns
    /\ runs' = runs + 1
    /\ prev' = IF pc = "done"
               THEN [done |-> TRUE, catalog_csv |-> catalog_csv,
                     manifest_csv |-> manifest_csv, reads |-> reads]
               ELSE prev
    /\ pc' = "import"
    /\ error' = "none"
    /\ base_issue' = 0
    /\ i' = 0
    /\ lines' = << >>
    /\ manifest_rows' = << >>
    /\ log' = << >>
    /\ reads' = << >>
    /\ UNCHANGED <<env, now, ticks, stream, pdf_dir, catalog_csv, manifest_csv,
                   zip_file>>

Next ==
    \/ ImportReportlab
    \/ WriteCatalog
    \/ WriteCatalogFails
    \/ IterateOk(RunDraws)
    \/ IterateValueError(RunDraws)
    \/ IterateWriteFails(RunDraws)
    \/ WriteManifest
    \/ WriteManifestFails
    \/ ZipPDFs
    \/ ZipFails
    \/ ClockTick

Spec == Init /\ [][Next]_vars

\* executions that follow one another in the same directory, on the fixed
\* catalog and without write failures
NextRerun ==
    \/ ImportReportlab
    \/ WriteCatalog
    \/ IterateOk(RerunDraws)
    \/ WriteManifest
    \/ ZipPDFs
    \/ ClockTick
    \/ Rerun

SpecRerun == InitRerun /\ [][NextRerun]_vars

\* one execution on the fixed catalog, over a wide range of line-item draws
NextItems ==
    \/ ImportReportlab
    \/ WriteCatalog
    \/ IterateOk(ItemDraws)
    \/ WriteManifest
    \/ ZipPDFs

SpecItems == InitItems /\ [][NextItems]_vars

\* one long execution, whose sequence numbers outgrow three digits
NextLong ==
    \/ ImportReportlab
    \/ WriteCatalog
    \/ IterateOk(LongDraws)
    \/ WriteManifest
    \/ ZipPDFs
    \/ ClockTick

SpecLong == InitLong /\ [][NextLong]_vars

\* ------------------------------------------------------------------
\* Properties
\* ------------------------------------------------------------------
DigitVal(c) == CHOOSE v \in 0..9 : DigitChars[v + 1] = c

\* the number of cents a text such as "132.69" denotes
RECURSIVE ParseCents(_)
ParseCents(t) ==
    IF t = << >> THEN 0
    ELSE IF t[Len(t)] = "."
         THEN ParseCents(SubSeq(t, 1, Len(t) - 1))
         ELSE 10 * ParseCents(SubSeq(t, 1, Len(t) - 1)) + DigitVal(t[Len(t)])

DataRows(csv) == IF csv = << >> THEN << >> ELSE Tail(csv)

LogKinds == {log[k][1] : k \in 1..Len(log)}

Rendered == {log[k][2] : k \in {j \in 1..Len(log) : log[j][1] = "pdf"}}

\* C1: after a completed run the manifest has OUTPUT_COUNT rows and the
\* archive holds exactly OUTPUT_COUNT documents, the ones named by the
\* manifest's invoice numbers, whatever the directory held before the run.
C1_ArchiveMatchesManifest ==
    pc = "done" =>
        /\ Len(DataRows(manifest_csv)) = output_count
        /\ Cardinality(zip_file) = output_count
        /\ zip_file = {PdfName(manifest_csv[k][1]) : k \in 2..Len(manifest_csv)}

\* s * rate / RateScale cents rounded to a whole cent, half up or half to even
RoundedTax(s, rate) ==
    LET x == s * rate
        q == x \div RateScale
        r == x % RateScale
    IN  IF 2 * r < RateScale THEN {q}
        ELSE IF 2 * r > RateScale THEN {q + 1}
        ELSE {q + 1, q + (q % 2)}

\* C2: in every manifest row the recorded tax is the recorded subtotal times
\* the tax rate rounded to the cent, and Subtotal + Tax = GrandTotal to the cent.
C2_TotalsToTheCent ==
    \A k \in 1..Len(manifest_rows) :
        LET s == ParseCents(manifest_rows[k][7])
            t == ParseCents(manifest_rows[k][8])
            g == ParseCents(manifest_rows[k][9])
        IN  /\ t \in RoundedTax(s, Choice(TAX_RATES, stream[k].rate))
            /\ s + t = g

BothCompleted == pc = "done" /\ prev.done

\* C3 as stated: two completed runs with the same seed and OUTPUT_COUNT have
\* identical manifest and catalog exports, whatever the dates they ran on.
C3_SameExportsAnyDate ==
    BothCompleted =>
        /\ manifest_csv = prev.manifest_csv
        /\ catalog_csv = prev.catalog_csv

\* C3 amended: two completed runs with the same seed and OUTPUT_COUNT have
\* identical catalog exports and manifests of the same length that agree in
\* ToName, ToAddr1, ToAddr2, Subtotal, Tax and GrandTotal whatever the dates;
\* the manifests are identical in every field when the clock returned the
\* same dates to both runs.
C3_SameExportsSameDates ==
    BothCompleted =>
        /\ catalog_csv = prev.catalog_csv
        /\ Len(manifest_csv) = Len(prev.manifest_csv)
        /\ \A k \in 2..Len(manifest_csv) :
              SubSeq(manifest_csv[k], 4, 9) = SubSeq(prev.manifest_csv[k], 4, 9)
        /\ (reads = prev.reads => manifest_csv = prev.manifest_csv)

C3_Witness ==
    /\ BothCompleted
    /\ output_count = MaxN
    /\ reads = prev.reads

\* C4: with fewer than 12 catalog entries the first line-item sampling fails,
\* whatever count was drawn, and no document is rendered.
C4_SmallCatalogRejected ==
    (Len(product_catalog) < MaxItems /\ i >= 1) =>
        /\ error = "ValueError"
        /\ "pdf" \notin LogKinds

\* C5: a completed run with OUTPUT_COUNT = 0 leaves a manifest without data
\* rows, an archive without entries and the full catalog export, whatever the
\* directory held before the run.
C5_EmptyRun ==
    (pc = "done" /\ output_count = 0) =>
        /\ DataRows(manifest_csv) = << >>
        /\ zip_file = {}
        /\ catalog_csv = CatalogExport(product_catalog)

\* C6: a failed write of any output file ends the run at that point: the
\* execution is crashed right after the failing step, a crashed execution
\* changes no output file any more (no retry, no later document), and every
\* change of the manifest file leaves in it only rows of documents that were
\* rendered successfully in this execution.
C6_WriteFailureAborts ==
    [][ /\ (error' = "OSError" => pc' = "crashed")
        /\ (pc = "crashed" =>
               UNCHANGED <<pdf_dir, catalog_csv, manifest_csv, zip_file>>)
        /\ (manifest_csv' # manifest_csv =>
               \A k \in 2..Len(manifest_csv') : manifest_csv'[k][1] \in Rendered)
      ]_vars

C6_Witness ==
    /\ error = "OSError"
    /\ pc = "crashed"
    /\ i = 1
    /\ output_count = MaxN

\* C7: while the reportlab imports fail, no step of an execution writes the
\* catalog export, a document, the manifest export or the archive; the
\* execution ends with the RuntimeError raised by the import guard.
C7_NoOutputWithoutReportlab ==
    [][ ~reportlab =>
            /\ UNCHANGED <<pdf_dir, catalog_csv, manifest_csv, zip_file>>
            /\ log' = << >>
            /\ pc' \in {"import", "crashed"}
            /\ (pc' = "crashed" => error' = "RuntimeError")
      ]_vars

C7_Witness ==
    /\ ~reportlab
    /\ pc = "crashed"
    /\ error = "RuntimeError"
    /\ pdf_dir \in InitialDirs

\* C8: the invoice number of the newest manifest row differs from that of
\* every earlier row of the run, and so do the document filenames, so the
\* run has written as many documents as it has completed iterations.  Every
\* row was once the newest, which makes the numbers pairwise distinct.
C8_InvoiceNumbersUnique ==
    LET n == Len(manifest_rows)
    IN  /\ \A j \in 1..(n - 1) :
              /\ manifest_rows[j][1] # manifest_rows[n][1]
              /\ PdfName(manifest_rows[j][1]) # PdfName(manifest_rows[n][1])
        /\ Cardinality(GlobPdf(pdf_dir)) = n

\* a run past sequence number 999 during which the date changed
C8_Witness ==
    /\ Len(manifest_rows) >= LongN
    /\ Len(manifest_rows[LongN][1]) > Len(manifest_rows[1][1])
    /\ SubSeq(manifest_rows[1][1], 2, 9) # SubSeq(manifest_rows[LongN][1], 2, 9)

\* C9: the line items of a generated document have pairwise distinct product
\* names, and each carries the unit and the unit price of the catalog entry
\* of that name.
C9_LinesFromCatalog ==
    /\ \A a, b \in 1..Len(lines) : a # b => lines[a][1] # lines[b][1]
    /\ \A a \in 1..Len(lines) :
          \E c \in 1..Len(product_catalog) :
              /\ product_catalog[c].name = lines[a][1]
              /\ product_catalog[c].unit = lines[a][2]
              /\ product_catalog[c].price = lines[a][4]

C9_Witness ==
    /\ Len(lines) = MaxItems
    /\ lines[1][3] = MaxQty
    /\ lines[1][1] # PRODUCT_CATALOG[1].name

PdfEventsBefore(k) == Cardinality({j \in 1..(k - 1) : log[j][1] = "pdf"})

\* C10 as stated: every summary export (catalog, manifest, archive) is written
\* only after all OUTPUT_COUNT documents have been rendered, each document
\* before its manifest row.
C10_SummariesAfterLoop ==
    \A k \in 1..Len(log) :
        /\ log[k][1] \in {"catalog", "manifest", "zip"} =>
              PdfEventsBefore(k) = output_count
        /\ log[k][1] = "row" => (k > 1 /\ log[k - 1] = <<"pdf", log[k][2]>>)

\* C10 amended: the catalog export is written first, before the loop; then
\* the documents are rendered one by one, each before its manifest row is
\* appended; the manifest export and then the archive are written only after
\* all OUTPUT_COUNT documents have been rendered.
C10_OutputOrder ==
    /\ Len(log) <= 2 * output_count + 3
    /\ \A k \in 1..Len(log) :
          IF k = 1 THEN log[k] = <<"catalog">>
          ELSE IF k = 2 * output_count + 2 THEN log[k] = <<"manifest">>
          ELSE IF k = 2 * output_count + 3 THEN log[k] = <<"zip">>
          ELSE IF k % 2 = 0 THEN log[k][1] = "pdf"
          ELSE log[k] = <<"row", log[k - 1][2]>>

C10_Witness ==
    /\ pc = "done"
    /\ output_count = MaxN
    /\ Len(log) = 2 * MaxN + 3
====
